---- MODULE Spec2Model ----
(***************************************************************************)
(* Scan job orchestration of the Linux Hardening & Compliance Scanner web  *)
(* interface (src/app.py): the scans table, the active_scans registry, the *)
(* POST /scan request handler and the background thread run_scan_background.*)
(***************************************************************************)
EXTENDS Integers, Sequences, FiniteSets, TLC

(***************************************************************************)
(* Bounds of the model.                                                    *)
(***************************************************************************)
\* number of POST /scan requests the model serves
MaxSubmits == 2
\* last value of the wall clock int(time.time()), counted from 0
MaxClock == 1

\* timeout= of subprocess.run, in seconds
ScanTimeout == 3600

Requests == 1..MaxSubmits
Clock == 0..MaxClock
\* values of the form field 'profile' (default 'filesystem')
Profiles == {"filesystem", "network"}
\* values of the form field 'output_format' (default 'text')
Formats == {"text", "json"}
\* return codes of ./scanner.sh
ReturnCodes == {0, 1}

(***************************************************************************)
(* SQL NULL / Python None: a nullable column holds Null or Some(v).        *)
(***************************************************************************)
Null == <<>>
Some(v) == <<v>>

(***************************************************************************)
(* scan_id = f"scan_{int(time.time())}_{profile}": the clock second and    *)
(* the profile determine the identifier, and nothing else does.            *)
(***************************************************************************)
MakeScanId(t, profile) == <<"scan", t, profile>>
ScanIds == {MakeScanId(t, p) : t \in Clock, p \in Profiles}

\* output_file = f"{scan_id}.{output_format}"
OutputFile(scan_id, output_format) == <<scan_id, output_format>>

(***************************************************************************)
(* Contents of the output file at the time the thread looks at it.         *)
(*   absent   : os.path.exists(output_path) is False                       *)
(*   garbage  : json.load raises json.JSONDecodeError                      *)
(*   value    : json.load returns a JSON value: an object (a function from *)
(*              its keys to JSON values), or a value that is no object     *)
(***************************************************************************)
JInt(n) == [kind |-> "int", val |-> n]
JStr(s) == [kind |-> "str", val |-> s]
JNull == [kind |-> "null"]
JList == [kind |-> "list"]
JObj(f) == [kind |-> "object", fields |-> f]

SummaryKeys == {"total_checks", "passed", "failed", "warnings", "skipped"}
\* the summary of the example payload of the scanner
FullSummary ==
    [total_checks |-> JInt(50), passed |-> JInt(45), failed |-> JInt(3),
     warnings |-> JInt(2), skipped |-> JInt(0)]
\* an object holding the keys ks of record f
Restrict(f, ks) == [k \in ks |-> f[k]]
SummaryValues ==
    { JObj(Restrict(FullSummary, ks)) :
        ks \in {SummaryKeys, {"total_checks", "failed"}, {}} }
    \cup {JNull}
FullData ==
    [compliance_score |-> JInt(87), risk_level |-> JStr("LOW"),
     summary |-> JObj(FullSummary)]
DataValues ==
    { JObj([k \in ks |-> IF k = "summary" THEN s ELSE FullData[k]]) :
        ks \in {{"compliance_score", "risk_level", "summary"}, {"summary"}},
        s \in SummaryValues }
    \cup { JObj(Restrict(FullData, {"compliance_score", "risk_level"})),
           JObj(Restrict(FullData, {"risk_level"})),
           JObj(Restrict(FullData, {})),
           JList, JNull }
Payloads ==
    {[file |-> "absent"], [file |-> "garbage"]}
    \cup {[file |-> "value", data |-> d] : d \in DataValues}

(***************************************************************************)
(* dict.get(key, default) on a JSON value: an object answers, any other    *)
(* value has no attribute 'get' (AttributeError).                          *)
(***************************************************************************)
IsDict(j) == j.kind = "object"
Get(j, key, default) ==
    IF key \in DOMAIN j.fields THEN j.fields[key] ELSE default

\* a Python value bound to a column of the UPDATE: None is NULL
ToSql(j) == IF j.kind \in {"int", "str"} THEN Some(j.val) ELSE Null

\* lines 110-112: the values the summary starts from
DefaultSummary ==
    [raised |-> "none",
     compliance_score |-> JInt(0), risk_level |-> JStr("Unknown"),
     total_checks |-> JInt(0), passed_checks |-> JInt(0),
     failed_checks |-> JInt(0), warning_checks |-> JInt(0),
     skipped_checks |-> JInt(0)]

\* ParseResults with the counters of 'passed' and 'failed' exchanged and the
\* defaults of line 110-111 lost to None
ParseResultsSwapped(output_format, payload) ==
    IF ~(output_format = "json" /\ payload.file = "value")
    THEN DefaultSummary
    ELSE LET data == payload.data IN
         IF ~IsDict(data)
         THEN [DefaultSummary EXCEPT !.raised = "AttributeError"]
         ELSE LET summary == Get(data, "summary", JObj(<<>>)) IN
              IF ~IsDict(summary)
              THEN [DefaultSummary EXCEPT !.raised = "AttributeError"]
              ELSE [raised |-> "none",
                    compliance_score |-> Get(data, "compliance_score", JNull),
                    risk_level |-> Get(data, "risk_level", JNull),
                    total_checks |-> Get(summary, "total_checks", JInt(0)),
                    passed_checks |-> Get(summary, "failed", JInt(0)),
                    failed_checks |-> Get(summary, "passed", JInt(0)),
                    warning_checks |-> Get(summary, "warnings", JInt(0)),
                    skipped_checks |-> Get(summary, "skipped", JInt(0))]

(***************************************************************************)
(* Lines 109-127: the summary the thread extracts, and the exception that  *)
(* leaves the inner try, if any. json.JSONDecodeError and KeyError are     *)
(* caught there and leave the defaults; an AttributeError is not.          *)
(***************************************************************************)
ParseResults(output_format, payload) ==
    IF ~(output_format = "json" /\ payload.file # "absent")
    THEN DefaultSummary
    ELSE IF payload.file = "garbage"
    THEN DefaultSummary
    ELSE LET data == payload.data IN
         IF ~IsDict(data)
         THEN [DefaultSummary EXCEPT !.raised = "AttributeError"]
         ELSE LET summary == Get(data, "summary", JObj(<<>>)) IN
              IF ~IsDict(summary)
              THEN [DefaultSummary EXCEPT !.raised = "AttributeError"]
              ELSE [raised |-> "none",
                    compliance_score |-> Get(data, "compliance_score", JInt(0)),
                    risk_level |-> Get(data, "risk_level", JStr("Unknown")),
                    total_checks |-> Get(summary, "total_checks", JInt(0)),
                    passed_checks |-> Get(summary, "passed", JInt(0)),
                    failed_checks |-> Get(summary, "failed", JInt(0)),
                    warning_checks |-> Get(summary, "warnings", JInt(0)),
                    skipped_checks |-> Get(summary, "skipped", JInt(0))]

\* line 146: 'completed' if result.returncode == 0 else 'failed'
ResultStatus(returncode) == IF returncode = 0 THEN "completed" ELSE "failed"

TerminalStatuses == {"completed", "failed", "timeout", "error"}

(***************************************************************************)
(* State.                                                                  *)
(*   now          the wall clock, in seconds                               *)
(*   scans        the scans table: scan_id -> row                          *)
(*   active_scans the keys of the module-level dict active_scans (its      *)
(*                values, a thread handle and a time, are never read)      *)
(*   req          the POST /scan handlers: position and locals             *)
(*   task         the run_scan_background threads: position and locals     *)
(*   written      per scan_id, the statuses committed to its row, in order *)
(*   resp         the response of the last GET handler that returned       *)
(***************************************************************************)
VARIABLES now, scans, active_scans, req, task, written, resp

vars == <<now, scans, active_scans, req, task, written, resp>>

\* lines 216-221 with the column defaults of lines 46-65
NewRow(scan_id, profile, rowid, t) ==
    [id |-> rowid, scan_id |-> scan_id, profile |-> profile,
     status |-> "queued",
     start_time |-> Some(t), end_time |-> Null, duration |-> Null,
     compliance_score |-> Null, risk_level |-> Null,
     total_checks |-> Some(0), passed_checks |-> Some(0),
     failed_checks |-> Some(0), warning_checks |-> Some(0),
     skipped_checks |-> Some(0),
     output_file |-> Null, created_at |-> Some(t)]

\* a function extended or overwritten at one argument
Put(f, k, v) == [x \in DOMAIN f \cup {k} |-> IF x = k THEN v ELSE f[x]]

IdleRequest ==
    [pc |-> "idle", profile |-> "", output_format |-> "", scan_id |-> <<>>,
     error |-> ""]

\* no GET handler has returned yet
NoResponse == [op |-> "none"]

Init ==
    /\ now = 0
    /\ scans = <<>>
    /\ active_scans = {}
    /\ req = [r \in Requests |-> IdleRequest]
    /\ task = <<>>
    /\ written = <<>>
    /\ resp = NoResponse

\* the clock advances
Tick ==
    /\ now < MaxClock
    /\ now' = now + 1
    /\ UNCHANGED <<scans, active_scans, req, task, written, resp>>

(***************************************************************************)
(* The store. Every statement runs in its own connection and is committed  *)
(* at once or not at all: an INSERT or UPDATE either takes effect or       *)
(* raises (sqlite3.OperationalError, e.g. "database is locked") and        *)
(* changes nothing.                                                        *)
(***************************************************************************)
\* a scan_id column without the UNIQUE constraint
IsDuplicateNever(scan_id) == FALSE

\* scan_id TEXT UNIQUE NOT NULL: the INSERT raises sqlite3.IntegrityError
IsDuplicate(scan_id) == scan_id \in DOMAIN scans

\* id INTEGER PRIMARY KEY AUTOINCREMENT; rows are never deleted
NextRowId == Cardinality(DOMAIN scans) + 1

\* UPDATE scans SET status = ? without its WHERE clause: every row is set
SetStatusEveryRow(scan_id, status) ==
    /\ scans' = [id \in DOMAIN scans |-> [scans[id] EXCEPT !.status = status]]
    /\ written' = [id \in DOMAIN written |-> Append(written[id], status)]

\* UPDATE scans SET status = ? WHERE scan_id = ?
SetStatus(scan_id, status) ==
    /\ scans' = [scans EXCEPT ![scan_id].status = status]
    /\ written' = [written EXCEPT ![scan_id] = Append(@, status)]

\* lines 130-158: the UPDATE that stores the results
SetResults(scan_id, status, duration, sm, output_file) ==
    /\ scans' = [scans EXCEPT ![scan_id] =
          [@ EXCEPT !.status = status,
                    !.end_time = Some(now),
                    !.duration = Some(duration),
                    !.compliance_score = ToSql(sm.compliance_score),
                    !.risk_level = ToSql(sm.risk_level),
                    !.total_checks = ToSql(sm.total_checks),
                    !.passed_checks = ToSql(sm.passed_checks),
                    !.failed_checks = ToSql(sm.failed_checks),
                    !.warning_checks = ToSql(sm.warning_checks),
                    !.skipped_checks = ToSql(sm.skipped_checks),
                    !.output_file = Some(output_file)]]
    /\ written' = [written EXCEPT ![scan_id] = Append(@, status)]

(***************************************************************************)
(* POST /scan (lines 203-234), one step per statement that other threads   *)
(* can observe. fix_mode and excluded_checks only add words to the command *)
(* line of the scanner and are left out.                                   *)
(***************************************************************************)
\* lines 207-213: the form is read and the scan_id made from the clock
ScanBegin(r) ==
    /\ req[r].pc = "idle"
    /\ IF r = 1 THEN TRUE ELSE req[r - 1].pc # "idle"
    /\ \E profile \in Profiles, output_format \in Formats :
         req' = [req EXCEPT ![r] =
            [pc |-> "insert", profile |-> profile,
             output_format |-> output_format,
             scan_id |-> MakeScanId(now, profile), error |-> ""]]
    /\ UNCHANGED <<now, scans, active_scans, task, written, resp>>

\* ScanInsert inside a try block that logs the exception of the store and
\* goes on to start the thread
ScanInsertIgnoringFailure(r) ==
    /\ req[r].pc = "insert"
    /\ LET scan_id == req[r].scan_id IN
       \/ /\ IsDuplicate(scan_id)
          /\ req' = [req EXCEPT ![r].pc = "failed",
                                ![r].error = "IntegrityError"]
          /\ UNCHANGED <<scans, written>>
       \/ /\ ~IsDuplicate(scan_id)
          /\ scans' = Put(scans, scan_id,
                          NewRow(scan_id, req[r].profile, NextRowId, now))
          /\ written' = Put(written, scan_id, <<"queued">>)
          /\ req' = [req EXCEPT ![r].pc = "start"]
       \/ /\ ~IsDuplicate(scan_id)
          /\ req' = [req EXCEPT ![r].pc = "start",
                                ![r].error = "OperationalError"]
          /\ UNCHANGED <<scans, written>>
    /\ UNCHANGED <<now, active_scans, task, resp>>

\* lines 216-221: the INSERT; an exception leaves the view (HTTP 500)
ScanInsert(r) ==
    /\ req[r].pc = "insert"
    /\ LET scan_id == req[r].scan_id IN
       \/ /\ IsDuplicate(scan_id)
          /\ req' = [req EXCEPT ![r].pc = "failed",
                                ![r].error = "IntegrityError"]
          /\ UNCHANGED <<scans, written>>
       \/ /\ ~IsDuplicate(scan_id)
          /\ scans' = Put(scans, scan_id,
                          NewRow(scan_id, req[r].profile, NextRowId, now))
          /\ written' = Put(written, scan_id, <<"queued">>)
          /\ req' = [req EXCEPT ![r].pc = "start"]
       \/ /\ ~IsDuplicate(scan_id)
          /\ req' = [req EXCEPT ![r].pc = "failed",
                                ![r].error = "OperationalError"]
          /\ UNCHANGED <<scans, written>>
    /\ UNCHANGED <<now, active_scans, task, resp>>

\* the locals of a thread that has just been started
NewTask(output_format) ==
    [pc |-> "update_running", output_format |-> output_format,
     start_time |-> Null, returncode |-> Null, duration |-> Null,
     payload |-> [file |-> "unread"], exc |-> "none", runs |-> 0]

\* lines 224-229: thread.start()
ScanStartThread(r) ==
    /\ req[r].pc = "start"
    /\ task' = Put(task, req[r].scan_id, NewTask(req[r].output_format))
    /\ req' = [req EXCEPT ![r].pc = "register"]
    /\ UNCHANGED <<now, scans, active_scans, written, resp>>

\* line 231: active_scans[scan_id] = {...}
ScanRegister(r) ==
    /\ req[r].pc = "register"
    /\ active_scans' = active_scans \cup {req[r].scan_id}
    /\ req' = [req EXCEPT ![r].pc = "redirect"]
    /\ UNCHANGED <<now, scans, task, written, resp>>

\* ScanReturn after a thread.join(): the response waits for the scanner
ScanReturnAfterJoin(r) ==
    /\ req[r].pc = "redirect"
    /\ req[r].scan_id \in DOMAIN task
    /\ task[req[r].scan_id].pc \in {"done", "died"}
    /\ req' = [req EXCEPT ![r].pc = "returned"]
    /\ UNCHANGED <<now, scans, active_scans, task, written, resp>>

\* lines 233-234: the response, a redirect to the status page of scan_id
ScanReturn(r) ==
    /\ req[r].pc = "redirect"
    /\ req' = [req EXCEPT ![r].pc = "returned"]
    /\ UNCHANGED <<now, scans, active_scans, task, written, resp>>

(***************************************************************************)
(* run_scan_background (lines 74-172), one step per store statement and    *)
(* per blocking call.                                                      *)
(***************************************************************************)
\* line 164: the status written by except subprocess.TimeoutExpired
TimeoutStatus == "timeout"

\* an except clause that writes the status the row already has
ErrorStatusRunning == "running"

\* line 171: the status written by except Exception
ErrorStatus == "error"

\* an exception raised in the try block reaches its except clause
Raise(scan_id, exception) ==
    task' = [task EXCEPT
        ![scan_id].exc = exception,
        ![scan_id].start_time = Null,
        ![scan_id].pc = IF exception = "TimeoutExpired"
                        THEN "except_timeout" ELSE "except_exception"]

\* lines 78-81: UPDATE scans SET status = 'running'
TaskUpdateRunning(scan_id) ==
    /\ task[scan_id].pc = "update_running"
    /\ \/ /\ SetStatus(scan_id, "running")
          /\ task' = [task EXCEPT ![scan_id].pc = "launch"]
       \/ /\ Raise(scan_id, "OperationalError")
          /\ UNCHANGED <<scans, written>>
    /\ UNCHANGED <<now, active_scans, req, resp>>

\* lines 103-104: the clock is read and ./scanner.sh started; a scanner
\* that cannot be started raises an OSError. start_time is kept until
\* line 107 has read it
TaskLaunch(scan_id) ==
    /\ task[scan_id].pc = "launch"
    /\ \/ task' = [task EXCEPT ![scan_id].pc = "wait",
                               ![scan_id].start_time = Some(now),
                               ![scan_id].runs = @ + 1]
       \/ task' = [task EXCEPT ![scan_id].pc = "except_exception",
                               ![scan_id].exc = "OSError",
                               ![scan_id].runs = @ + 1]
    /\ UNCHANGED <<now, scans, active_scans, req, written, resp>>

\* line 107: duration = int(end_time - start_time)
Duration(start_time, end_time) == end_time - start_time

\* lines 104-127: subprocess.run returns or raises TimeoutExpired after
\* ScanTimeout seconds (the model does not count them); after a return the
\* output file is parsed. files[f] are the contents the scanner may leave
\* in the output file under output format f
TaskWait(scan_id, files) ==
    /\ task[scan_id].pc = "wait"
    /\ \/ \E returncode \in ReturnCodes,
             payload \in files[task[scan_id].output_format] :
            LET t == task[scan_id]
                sm == ParseResults(t.output_format, payload)
            IN task' = [task EXCEPT ![scan_id] =
                 [t EXCEPT !.returncode = Some(returncode),
                           !.duration = Some(Duration(t.start_time[1], now)),
                           !.payload = payload, !.start_time = Null,
                           !.exc = IF sm.raised = "none" THEN t.exc
                                   ELSE sm.raised,
                           !.pc = IF sm.raised = "none" THEN "update_results"
                                  ELSE "except_exception"]]
       \/ Raise(scan_id, "TimeoutExpired")
    /\ UNCHANGED <<now, scans, active_scans, req, written, resp>>

\* TaskUpdateResults with an exception raised after the commit of line 158
TaskUpdateResultsRaiseAfterCommit(scan_id) ==
    /\ task[scan_id].pc = "update_results"
    /\ LET t == task[scan_id] IN
          /\ SetResults(scan_id, ResultStatus(t.returncode[1]), t.duration[1],
                        ParseResults(t.output_format, t.payload),
                        OutputFile(scan_id, t.output_format))
          /\ Raise(scan_id, "OperationalError")
    /\ UNCHANGED <<now, active_scans, req, resp>>

\* lines 130-158: the results are stored
TaskUpdateResults(scan_id) ==
    /\ task[scan_id].pc = "update_results"
    /\ LET t == task[scan_id] IN
       \/ /\ SetResults(scan_id, ResultStatus(t.returncode[1]), t.duration[1],
                        ParseResults(t.output_format, t.payload),
                        OutputFile(scan_id, t.output_format))
          /\ task' = [task EXCEPT ![scan_id].pc = "done"]
       \/ /\ Raise(scan_id, "OperationalError")
          /\ UNCHANGED <<scans, written>>
    /\ UNCHANGED <<now, active_scans, req, resp>>

\* lines 160-165: except subprocess.TimeoutExpired; an exception raised
\* here leaves the thread
TaskExceptTimeout(scan_id) ==
    /\ task[scan_id].pc = "except_timeout"
    /\ \/ /\ SetStatus(scan_id, TimeoutStatus)
          /\ task' = [task EXCEPT ![scan_id].pc = "done"]
       \/ /\ task' = [task EXCEPT ![scan_id].pc = "died",
                                  ![scan_id].exc = "OperationalError"]
          /\ UNCHANGED <<scans, written>>
    /\ UNCHANGED <<now, active_scans, req, resp>>

\* an except clause that, after an OSError, marks the row and starts the
\* scanner once more
TaskExceptExceptionRetrying(scan_id) ==
    /\ task[scan_id].pc = "except_exception"
    /\ \/ /\ SetStatus(scan_id, ErrorStatus)
          /\ task' = [task EXCEPT ![scan_id].pc =
                IF task[scan_id].exc = "OSError" /\ task[scan_id].runs < 2
                THEN "launch" ELSE "done"]
       \/ /\ task' = [task EXCEPT ![scan_id].pc = "died",
                                  ![scan_id].exc = "OperationalError"]
          /\ UNCHANGED <<scans, written>>
    /\ UNCHANGED <<now, active_scans, req, resp>>

\* lines 166-172: except Exception; an exception raised here leaves the
\* thread
TaskExceptException(scan_id) ==
    /\ task[scan_id].pc = "except_exception"
    /\ \/ /\ SetStatus(scan_id, ErrorStatus)
          /\ task' = [task EXCEPT ![scan_id].pc = "done"]
       \/ /\ task' = [task EXCEPT ![scan_id].pc = "died",
                                  ![scan_id].exc = "OperationalError"]
          /\ UNCHANGED <<scans, written>>
    /\ UNCHANGED <<now, active_scans, req, resp>>

\* the steps of the thread of scan_id, for the fairness of JobLiveSpec
TaskStep(scan_id, files) ==
    \/ TaskUpdateRunning(scan_id)
    \/ TaskLaunch(scan_id)
    \/ TaskWait(scan_id, files)
    \/ TaskUpdateResults(scan_id)
    \/ TaskExceptTimeout(scan_id)
    \/ TaskExceptException(scan_id)

(***************************************************************************)
(* Spec: MaxSubmits concurrent requests and their threads. The output file *)
(* holds one content per path through lines 114-127: text that is no JSON  *)
(* (all a 'text' scan leaves), a JSON value that is no object, and the     *)
(* object of the scanner's example.                                        *)
(***************************************************************************)
PathFiles ==
    [f \in Formats |->
        IF f = "json"
        THEN {[file |-> "garbage"], [file |-> "value", data |-> JList],
              [file |-> "value", data |-> JObj(FullData)]}
        ELSE {[file |-> "garbage"]}]

Next ==
    \/ Tick
    \/ \E r \in Requests : ScanBegin(r)
    \/ \E r \in Requests : ScanInsert(r)
    \/ \E r \in Requests : ScanStartThread(r)
    \/ \E r \in Requests : ScanRegister(r)
    \/ \E r \in Requests : ScanReturn(r)
    \/ \E scan_id \in DOMAIN task : TaskUpdateRunning(scan_id)
    \/ \E scan_id \in DOMAIN task : TaskLaunch(scan_id)
    \/ \E scan_id \in DOMAIN task : TaskWait(scan_id, PathFiles)
    \/ \E scan_id \in DOMAIN task : TaskUpdateResults(scan_id)
    \/ \E scan_id \in DOMAIN task : TaskExceptTimeout(scan_id)
    \/ \E scan_id \in DOMAIN task : TaskExceptException(scan_id)

Spec == Init /\ [][Next]_vars

(***************************************************************************)
(* JobSpec: one request and its thread, with every content of Payloads in  *)
(* the output file under either output format.                             *)
(***************************************************************************)
AnyFiles == [f \in Formats |-> Payloads]

JobNext ==
    \/ Tick
    \/ ScanBegin(1)
    \/ ScanInsert(1)
    \/ ScanStartThread(1)
    \/ ScanRegister(1)
    \/ ScanReturn(1)
    \/ \E scan_id \in DOMAIN task : TaskUpdateRunning(scan_id)
    \/ \E scan_id \in DOMAIN task : TaskLaunch(scan_id)
    \/ \E scan_id \in DOMAIN task : TaskWait(scan_id, AnyFiles)
    \/ \E scan_id \in DOMAIN task : TaskUpdateResults(scan_id)
    \/ \E scan_id \in DOMAIN task : TaskExceptTimeout(scan_id)
    \/ \E scan_id \in DOMAIN task : TaskExceptException(scan_id)

JobSpec == Init /\ [][JobNext]_vars

(***************************************************************************)
(* JobLiveSpec: JobSpec with a request handler that goes on to start the   *)
(* thread and a thread that is scheduled as long as it has a step to take: *)
(* threading.Thread runs the target until it returns or raises, and        *)
(* subprocess.run returns or raises after at most ScanTimeout seconds.     *)
(***************************************************************************)
JobLiveSpec ==
    /\ JobSpec
    /\ WF_vars(ScanStartThread(1))
    /\ \A scan_id \in ScanIds :
          WF_vars(scan_id \in DOMAIN task /\ TaskStep(scan_id, AnyFiles))

(***************************************************************************)
(* The GET handlers (lines 174-201, 238-302, 319-346). Each runs its       *)
(* SELECTs in one connection and answers from what they return; resp       *)
(* holds the answer. Aggregates are computed as SQLite computes them: an   *)
(* aggregate skips NULL, AVG, MAX, MIN and SUM over no value are NULL, and *)
(* AVG is kept as the exact quotient <<numerator, denominator>> in lowest  *)
(* terms.                                                                  *)
(***************************************************************************)
\* the most scans a page of /results lists (line 284)
PerPage == 20

\* the most scans the dashboard lists (line 195)
RecentLimit == 10

Min(a, b) == IF a < b THEN a ELSE b
Max(a, b) == IF a > b THEN a ELSE b

RECURSIVE GCD(_, _)
GCD(a, b) == IF b = 0 THEN a ELSE GCD(b, a % b)

\* the quotient a / b in lowest terms, b > 0
Ratio(a, b) == <<a \div GCD(a, b), b \div GCD(a, b)>>

\* WHERE status = ?
WhereStatus(tbl, status) == {id \in DOMAIN tbl : tbl[id].status = status}

\* the rows whose compliance_score is not NULL
Scored(tbl, ids) == {id \in ids : tbl[id].compliance_score # Null}

RECURSIVE SumScore(_, _)
SumScore(tbl, ids) ==
    IF ids = {} THEN 0
    ELSE LET id == CHOOSE x \in ids : TRUE
         IN  tbl[id].compliance_score[1] + SumScore(tbl, ids \ {id})

\* AVG(compliance_score) over the rows ids
AvgScore(tbl, ids) ==
    IF Scored(tbl, ids) = {} THEN Null
    ELSE Some(Ratio(SumScore(tbl, Scored(tbl, ids)),
                    Cardinality(Scored(tbl, ids))))

\* MAX(compliance_score) over the rows ids
MaxScore(tbl, ids) ==
    IF Scored(tbl, ids) = {} THEN Null
    ELSE Some(CHOOSE m \in {tbl[id].compliance_score[1] : id \in Scored(tbl, ids)} :
                \A id \in Scored(tbl, ids) : tbl[id].compliance_score[1] <= m)

\* MIN(compliance_score) over the rows ids
MinScore(tbl, ids) ==
    IF Scored(tbl, ids) = {} THEN Null
    ELSE Some(CHOOSE m \in {tbl[id].compliance_score[1] : id \in Scored(tbl, ids)} :
                \A id \in Scored(tbl, ids) : tbl[id].compliance_score[1] >= m)

\* SUM(CASE WHEN status = ? THEN 1 ELSE 0 END) over the rows ids
SumCaseStatus(tbl, ids, status) ==
    IF ids = {} THEN Null
    ELSE Some(Cardinality({id \in ids : tbl[id].status = status}))

\* SUM(CASE WHEN risk_level = ? THEN 1 ELSE 0 END) over the rows ids
SumCaseRisk(tbl, ids, risk_level) ==
    IF ids = {} THEN Null
    ELSE Some(Cardinality({id \in ids : tbl[id].risk_level = Some(risk_level)}))

\* Python's  x or 0  on a column that holds a number or NULL
OrZero(c) == IF c = Null THEN 0 ELSE c[1]

\* round(avg or 0, 1): the nearest tenth, a half going to the even tenth
RoundTenth(avg) ==
    IF avg = Null THEN Ratio(0, 1)
    ELSE LET t == 10 * avg[1][1]
             n == avg[1][2]
             f == t \div n
             r == t % n
         IN  Ratio(IF 2 * r < n THEN f
                   ELSE IF 2 * r > n THEN f + 1
                   ELSE IF f % 2 = 0 THEN f ELSE f + 1, 10)

\* row a comes before row b under ORDER BY created_at DESC; rows of the
\* same second come out in the order of their rowid, as SQLite's sorter
\* leaves them
ComesBefore(tbl, a, b) ==
    \/ tbl[a].created_at[1] > tbl[b].created_at[1]
    \/ /\ tbl[a].created_at[1] = tbl[b].created_at[1]
       /\ tbl[a].id < tbl[b].id

\* SELECT * FROM scans ORDER BY created_at DESC
OrderByCreatedAtDesc(tbl) ==
    [i \in 1..Cardinality(DOMAIN tbl) |->
        tbl[CHOOSE a \in DOMAIN tbl :
              Cardinality({b \in DOMAIN tbl : ComesBefore(tbl, b, a)}) = i - 1]]

\* LIMIT ? OFFSET ?: a negative OFFSET counts as 0
LimitOffset(rows, limit, offset) ==
    SubSeq(rows, Max(offset, 0) + 1, Min(Max(offset, 0) + limit, Len(rows)))

\* offset = page * per_page: the first page skips per_page rows
OffsetOfNextPage(page) == page * PerPage

\* line 285: offset = (page - 1) * per_page
Offset(page) == (page - 1) * PerPage

\* lines 287-296: the rows of page `page` of /results
ResultsPage(tbl, page) ==
    LimitOffset(OrderByCreatedAtDesc(tbl), PerPage, Offset(page))

\* lines 178-189: the aggregates of the dashboard, over every row
DashboardStats(tbl) ==
    [total_scans |-> Cardinality(DOMAIN tbl),
     avg_score |-> AvgScore(tbl, DOMAIN tbl),
     best_score |-> MaxScore(tbl, DOMAIN tbl),
     worst_score |-> MinScore(tbl, DOMAIN tbl),
     completed_scans |-> SumCaseStatus(tbl, DOMAIN tbl, "completed"),
     critical_scans |-> SumCaseRisk(tbl, DOMAIN tbl, "CRITICAL"),
     high_scans |-> SumCaseRisk(tbl, DOMAIN tbl, "HIGH")]

\* lines 174-201: GET /
Dashboard ==
    /\ resp' = [op |-> "dashboard",
                stats |-> DashboardStats(scans),
                recent_scans |->
                    LimitOffset(OrderByCreatedAtDesc(scans), RecentLimit, 0),
                active_scans |-> active_scans]
    /\ UNCHANGED <<now, scans, active_scans, req, task, written>>

\* scan_status that files the scan_id it is asked about
ScanStatusRegistering(scan_id) ==
    /\ resp' = IF scan_id \notin DOMAIN scans
               THEN [op |-> "scan_status", scan_id |-> scan_id,
                     code |-> 302, flash |-> "Scan not found"]
               ELSE [op |-> "scan_status", scan_id |-> scan_id,
                     code |-> 200, scan |-> scans[scan_id],
                     is_active |-> TRUE]
    /\ active_scans' = active_scans \cup {scan_id}
    /\ UNCHANGED <<now, scans, req, task, written>>

\* lines 238-254: GET /scan/<scan_id>
ScanStatus(scan_id) ==
    /\ resp' = IF scan_id \notin DOMAIN scans
               THEN [op |-> "scan_status", scan_id |-> scan_id,
                     code |-> 302, flash |-> "Scan not found"]
               ELSE [op |-> "scan_status", scan_id |-> scan_id,
                     code |-> 200, scan |-> scans[scan_id],
                     is_active |-> scan_id \in active_scans]
    /\ UNCHANGED <<now, scans, active_scans, req, task, written>>

\* lines 256-278: GET /api/scan/<scan_id>/status
ApiScanStatus(scan_id) ==
    /\ resp' = IF scan_id \notin DOMAIN scans
               THEN [op |-> "api_scan_status", scan_id |-> scan_id,
                     code |-> 404, error |-> "Scan not found"]
               ELSE LET scan_data == scans[scan_id] IN
                    [op |-> "api_scan_status", scan_id |-> scan_id,
                     code |-> 200,
                     json |->
                       [scan_id |-> scan_data.scan_id,
                        status |-> scan_data.status,
                        profile |-> scan_data.profile,
                        compliance_score |-> scan_data.compliance_score,
                        risk_level |-> scan_data.risk_level,
                        duration |-> scan_data.duration,
                        total_checks |-> scan_data.total_checks,
                        passed_checks |-> scan_data.passed_checks,
                        failed_checks |-> scan_data.failed_checks,
                        warning_checks |-> scan_data.warning_checks,
                        skipped_checks |-> scan_data.skipped_checks]]
    /\ UNCHANGED <<now, scans, active_scans, req, task, written>>

\* lines 280-302: GET /results?page=<page>
Results(page) ==
    /\ resp' = [op |-> "results", page |-> page, per_page |-> PerPage,
                total |-> Cardinality(DOMAIN scans),
                scans |-> ResultsPage(scans, page)]
    /\ UNCHANGED <<now, scans, active_scans, req, task, written>>

\* lines 322-334: the aggregates of the summary, over the completed rows
SummaryStats(tbl) ==
    LET ids == WhereStatus(tbl, "completed") IN
    [total_scans |-> Some(Cardinality(ids)),
     avg_score |-> AvgScore(tbl, ids),
     completed_scans |-> SumCaseStatus(tbl, ids, "completed"),
     critical_risk |-> SumCaseRisk(tbl, ids, "CRITICAL"),
     high_risk |-> SumCaseRisk(tbl, ids, "HIGH"),
     medium_risk |-> SumCaseRisk(tbl, ids, "MEDIUM"),
     low_risk |-> SumCaseRisk(tbl, ids, "LOW")]

\* lines 319-346: GET /api/scans/summary
ApiScansSummary ==
    /\ LET summary == SummaryStats(scans) IN
       resp' = [op |-> "api_scans_summary",
                total_scans |-> OrZero(summary.total_scans),
                avg_score |-> RoundTenth(summary.avg_score),
                completed_scans |-> OrZero(summary.completed_scans),
                risk_distribution |->
                    [critical |-> OrZero(summary.critical_risk),
                     high |-> OrZero(summary.high_risk),
                     medium |-> OrZero(summary.medium_risk),
                     low |-> OrZero(summary.low_risk)]]
    /\ UNCHANGED <<now, scans, active_scans, req, task, written>>

(***************************************************************************)
(* ViewSpec: one request and its thread, as in Spec with the output files  *)
(* of PathFiles, and the GET handlers answering at any moment.             *)
(***************************************************************************)
MaxPage == 2

Pages == 0..MaxPage

ViewNext ==
    \/ Tick
    \/ ScanBegin(1)
    \/ ScanInsert(1)
    \/ ScanStartThread(1)
    \/ ScanRegister(1)
    \/ ScanReturn(1)
    \/ \E scan_id \in DOMAIN task : TaskUpdateRunning(scan_id)
    \/ \E scan_id \in DOMAIN task : TaskLaunch(scan_id)
    \/ \E scan_id \in DOMAIN task : TaskWait(scan_id, PathFiles)
    \/ \E scan_id \in DOMAIN task : TaskUpdateResults(scan_id)
    \/ \E scan_id \in DOMAIN task : TaskExceptTimeout(scan_id)
    \/ \E scan_id \in DOMAIN task : TaskExceptException(scan_id)
    \/ Dashboard
    \/ \E scan_id \in ScanIds : ScanStatus(scan_id)
    \/ \E scan_id \in ScanIds : ApiScanStatus(scan_id)
    \/ \E page \in Pages : Results(page)
    \/ ApiScansSummary

ViewSpec == Init /\ [][ViewNext]_vars

(***************************************************************************)
(* PageSpec: GET /results on a table of any size up to MaxRows. The        *)
(* application starts (init_db keeps an existing table, active_scans is    *)
(* empty) on the rows that n accepted requests of an earlier run have      *)
(* inserted, one a second or one per profile a second, and answers         *)
(* requests for pages.                                                     *)
(***************************************************************************)
MaxRows == 26

\* the order in which the profiles are submitted within one second
ProfileOrder == <<"filesystem", "network">>

\* the row of the i-th accepted request when k requests arrive a second
RowAt(i, k) ==
    LET t == (i - 1) \div k
        profile == ProfileOrder[((i - 1) % k) + 1]
    IN  NewRow(MakeScanId(t, profile), profile, i, t)

\* the table after n accepted requests, k a second
StoredTable(n, k) ==
    [scan_id \in {RowAt(i, k).scan_id : i \in 1..n} |->
        CHOOSE row \in {RowAt(i, k) : i \in 1..n} : row.scan_id = scan_id]

PageInit ==
    \E n \in 0..MaxRows, k \in 1..Len(ProfileOrder) :
        /\ scans = StoredTable(n, k)
        /\ written = [scan_id \in DOMAIN scans |-> <<"queued">>]
        /\ now = n \div k
        /\ active_scans = {}
        /\ req = [r \in Requests |-> IdleRequest]
        /\ task = <<>>
        /\ resp = NoResponse

PageNext == \E page \in Pages : Results(page)

PageSpec == PageInit /\ [][PageNext]_vars

(***************************************************************************)
(* Properties.                                                             *)
(***************************************************************************)
\* the terminal statuses among the statuses committed to the row of scan_id
TerminalWrites(scan_id) ==
    Cardinality({i \in DOMAIN written[scan_id] :
                    written[scan_id][i] \in TerminalStatuses})

\* the thread of scan_id has ended: it returned, or an exception left it
Ended(scan_id) == task[scan_id].pc \in {"done", "died"}

IsPrefix(p, q) ==
    /\ Len(p) <= Len(q)
    /\ \A i \in 1..Len(p) : p[i] = q[i]

\* C2: the statuses written to a row are always a prefix of
\* queued, running, T with T terminal: no terminal status is written to a
\* row that is still queued (also when the first UPDATE of the thread
\* fails), and nothing is written after a terminal status.
C2_PrefixOfLifecycle ==
    \A scan_id \in DOMAIN scans :
        \E T \in TerminalStatuses :
            IsPrefix(written[scan_id], <<"queued", "running", T>>)

\* C3: a scan_id in active_scans has status queued or running, so that a
\* scan with a terminal status is shown with is_active = False.
C3_ActiveOnlyBeforeTerminal ==
    \A scan_id \in active_scans :
        scans[scan_id].status \in {"queued", "running"}

\* C4: the request does not wait for the scanner. Once the row is inserted
\* every remaining step of the request is enabled whatever the thread does,
\* and when the response is sent the row exists and the scan_id is in
\* active_scans.
C4_SubmitDoesNotBlock ==
    \A r \in Requests :
        /\ req[r].pc = "start" => ENABLED ScanStartThread(r)
        /\ req[r].pc = "register" => ENABLED ScanRegister(r)
        /\ req[r].pc = "redirect" => ENABLED ScanReturn(r)
        /\ req[r].pc = "returned" =>
              /\ req[r].scan_id \in DOMAIN scans
              /\ req[r].scan_id \in active_scans

\* the response has been sent while the scanner is still running
C4_Witness ==
    \E r \in Requests :
        /\ req[r].pc = "returned"
        /\ task[req[r].scan_id].pc = "wait"
        /\ scans[req[r].scan_id].status = "running"

HasTerminalStatus(scan_id) ==
    scan_id \in DOMAIN scans /\ scans[scan_id].status \in TerminalStatuses

\* C5 as stated: with the request handler and the thread scheduled fairly
\* (and the process alive), every accepted scan eventually has a terminal
\* status: no outcome of the scanner and no exception path leaves the row
\* queued or running forever.
C5_EveryJobTerminates ==
    \A scan_id \in ScanIds :
        (scan_id \in DOMAIN scans) ~> HasTerminalStatus(scan_id)

\* C5, amended: every accepted scan eventually has a terminal status, or
\* its thread is left by an exception of the store raised inside an except
\* clause (lines 162-165, 169-172) and the row stays queued or running.
C5_TerminatesUnlessHandlerFails ==
    \A scan_id \in ScanIds :
        (scan_id \in DOMAIN scans) ~>
            \/ HasTerminalStatus(scan_id)
            \/ /\ scan_id \in DOMAIN task
               /\ task[scan_id].pc = "died"
               /\ task[scan_id].exc = "OperationalError"

\* a scan whose scanner could not be started has reached its terminal
\* status through the except clause
C5_Witness ==
    \E scan_id \in DOMAIN task :
        /\ task[scan_id].pc = "done"
        /\ task[scan_id].exc = "OSError"
        /\ scans[scan_id].status = "error"

(***************************************************************************)
(* The outcome of one scan. A thread whose store statements all took       *)
(* effect has exc "none", or the exception of the scanner or of the parse. *)
(***************************************************************************)
StoreRaised(scan_id) == task[scan_id].exc = "OperationalError"

\* the value of column c the payload asks for: the value under key k of
\* object o when o has the key, the column's default otherwise
Stored(o, k, default) ==
    IF k \in DOMAIN o.fields THEN Some(o.fields[k].val) ELSE Some(default)

\* the payload is an object whose summary, if it has one, is an object
WellFormed(payload) ==
    /\ payload.file = "value"
    /\ payload.data.kind = "object"
    /\ "summary" \in DOMAIN payload.data.fields =>
          payload.data.fields["summary"].kind = "object"

SummaryOf(payload) ==
    IF "summary" \in DOMAIN payload.data.fields
    THEN payload.data.fields["summary"] ELSE JObj(<<>>)

\* every summary column of the row has the value the INSERT or the
\* defaults of lines 110-112 give it
HasDefaultSummary(row) ==
    /\ row.compliance_score = Some(0)
    /\ row.risk_level = Some("Unknown")
    /\ row.total_checks = Some(0) /\ row.passed_checks = Some(0)
    /\ row.failed_checks = Some(0) /\ row.warning_checks = Some(0)
    /\ row.skipped_checks = Some(0)

\* C6: after return code 0 with output format json and an output file that
\* holds an object, the row ends completed with compliance_score,
\* risk_level and the five counters of the payload, a key the payload lacks
\* giving 0 (risk_level: "Unknown"); the example payload gives 87, LOW,
\* 50, 45, 3, 2, 0.
C6_StructuredPayloadStored ==
    \A scan_id \in DOMAIN task :
        LET t == task[scan_id]
            row == scans[scan_id]
        IN  ( /\ t.pc = "done" /\ ~StoreRaised(scan_id)
              /\ t.returncode = Some(0) /\ t.output_format = "json"
              /\ WellFormed(t.payload) )
            =>
            /\ row.status = "completed"
            /\ row.compliance_score = Stored(t.payload.data, "compliance_score", 0)
            /\ row.risk_level = Stored(t.payload.data, "risk_level", "Unknown")
            /\ row.total_checks = Stored(SummaryOf(t.payload), "total_checks", 0)
            /\ row.passed_checks = Stored(SummaryOf(t.payload), "passed", 0)
            /\ row.failed_checks = Stored(SummaryOf(t.payload), "failed", 0)
            /\ row.warning_checks = Stored(SummaryOf(t.payload), "warnings", 0)
            /\ row.skipped_checks = Stored(SummaryOf(t.payload), "skipped", 0)
            /\ t.payload.data = JObj(FullData) =>
                  /\ row.compliance_score = Some(87)
                  /\ row.risk_level = Some("LOW")
                  /\ row.total_checks = Some(50) /\ row.passed_checks = Some(45)
                  /\ row.failed_checks = Some(3) /\ row.warning_checks = Some(2)
                  /\ row.skipped_checks = Some(0)

\* the example payload has been stored
C6_Witness ==
    \E scan_id \in DOMAIN task :
        /\ task[scan_id].pc = "done"
        /\ task[scan_id].returncode = Some(0)
        /\ task[scan_id].output_format = "json"
        /\ task[scan_id].payload = [file |-> "value", data |-> JObj(FullData)]
        /\ scans[scan_id].status = "completed"
        /\ scans[scan_id].compliance_score = Some(87)
        /\ scans[scan_id].failed_checks = Some(3)

\* the output file holds no object of the expected structure
Malformed(payload) == payload.file = "garbage" \/
    (payload.file = "value" /\ ~WellFormed(payload))

\* C7: after return code 0 with output format json and a malformed output
\* file (text that is no JSON, a JSON value that is no object, a summary
\* that is no object), the row ends completed with every summary column at
\* its default: the scan does not end in error.
C7_MalformedPayloadCompletes ==
    \A scan_id \in DOMAIN task :
        LET t == task[scan_id] IN
        ( /\ Ended(scan_id) /\ ~StoreRaised(scan_id)
          /\ t.returncode = Some(0) /\ t.output_format = "json"
          /\ Malformed(t.payload) )
        => /\ scans[scan_id].status = "completed"
           /\ HasDefaultSummary(scans[scan_id])

\* C8: after a return code other than 0 the row ends failed, under either
\* output format and whatever the output file holds.
C8_NonZeroExitFails ==
    \A scan_id \in DOMAIN task :
        LET t == task[scan_id] IN
        ( /\ Ended(scan_id) /\ ~StoreRaised(scan_id)
          /\ t.returncode # Null /\ t.returncode # Some(0) )
        => scans[scan_id].status = "failed"

\* C9: after a scanner that ran into the timeout the row ends with status
\* timeout and a duration of ScanTimeout seconds.
C9_TimeoutRecordsDuration ==
    \A scan_id \in DOMAIN task :
        ( /\ Ended(scan_id) /\ ~StoreRaised(scan_id)
          /\ task[scan_id].exc = "TimeoutExpired" )
        => /\ scans[scan_id].status = "timeout"
           /\ scans[scan_id].duration = Some(ScanTimeout)

\* the INSERT of request r took effect
Accepted(r) == req[r].pc \in {"start", "register", "redirect", "returned"}

\* C10: a request whose scan_id is already in the table (same profile, same
\* clock second) is rejected: its INSERT fails, the request ends there
\* without starting a thread or touching active_scans, and the table is
\* left as it was; so any two accepted requests have different scan_ids.
C10_DuplicateRejected ==
    /\ [](\A r1, r2 \in Requests :
            (r1 # r2 /\ Accepted(r1) /\ Accepted(r2))
                => req[r1].scan_id # req[r2].scan_id)
    /\ [][\A r \in Requests :
            /\ ( /\ req[r].pc = "insert"
                 /\ req[r].scan_id \in DOMAIN scans
                 /\ req'[r] # req[r] )
               => /\ req'[r].pc = "failed"
                  /\ req'[r].error = "IntegrityError"
                  /\ scans' = scans /\ written' = written
                  /\ task' = task /\ active_scans' = active_scans
            /\ req[r].pc = "failed" => req'[r] = req[r]]_vars

\* of two requests for the same profile in the same second one has been
\* accepted and the other rejected
C10_Witness ==
    \E r1, r2 \in Requests :
        /\ Accepted(r1)
        /\ req[r2].pc = "failed" /\ req[r2].error = "IntegrityError"
        /\ req[r1].scan_id = req[r2].scan_id
        /\ Cardinality(DOMAIN scans) = 1

\* column c holds its default d, or NULL as the INSERT of lines 216-221
\* leaves compliance_score and risk_level
DefaultOrNull(c, d) == c = Null \/ c = Some(d)

\* no summary column of the row holds a value taken from an output file
SummaryUntouched(row) ==
    /\ DefaultOrNull(row.compliance_score, 0)
    /\ DefaultOrNull(row.risk_level, "Unknown")
    /\ DefaultOrNull(row.total_checks, 0)
    /\ DefaultOrNull(row.passed_checks, 0)
    /\ DefaultOrNull(row.failed_checks, 0)
    /\ DefaultOrNull(row.warning_checks, 0)
    /\ DefaultOrNull(row.skipped_checks, 0)

\* C11: a summary column differs from its default (0, "Unknown"; NULL
\* counted as default) only in a row that is completed and whose output
\* format is json: a queued, running, failed, timeout or error row and the
\* row of a text scan have every summary column at its default.
C11_SummaryOnlyWhenCompletedJson ==
    \A scan_id \in DOMAIN scans :
        LET row == scans[scan_id]
            structured == /\ scan_id \in DOMAIN task
                          /\ task[scan_id].output_format = "json"
        IN  ~(row.status = "completed" /\ structured)
                => SummaryUntouched(row)

\* the mean compliance_score of the completed rows, 0 when there is none
CompletedMean(tbl) ==
    LET avg == AvgScore(tbl, WhereStatus(tbl, "completed"))
    IN  IF avg = Null THEN Ratio(0, 1) ELSE avg[1]

\* C12: each view of the aggregates, the dashboard and the summary API,
\* answers with avg_score the mean compliance_score of exactly the
\* completed rows (the API to the nearest tenth; NULL counted as 0) and
\* with completed_scans the number of completed rows: a failed, timeout,
\* error, queued or running row adds nothing to the mean.
C12_AveragesOverCompleted ==
    [][resp' # resp =>
         /\ resp'.op = "dashboard" =>
              /\ (IF resp'.stats.avg_score = Null THEN Ratio(0, 1)
                  ELSE resp'.stats.avg_score[1]) = CompletedMean(scans)
              /\ OrZero(resp'.stats.completed_scans)
                    = Cardinality(WhereStatus(scans, "completed"))
         /\ resp'.op = "api_scans_summary" =>
              /\ resp'.avg_score = RoundTenth(Some(CompletedMean(scans)))
              /\ resp'.completed_scans
                    = Cardinality(WhereStatus(scans, "completed"))]_vars

\* the scan_ids of the rows of a page
IdsOf(rows) == {rows[i].scan_id : i \in DOMAIN rows}

\* C13: on a table of N rows, page p >= 1 of /results lists exactly
\* min(20, max(0, N - 20 * (p - 1))) rows of the table, none twice, from
\* the newest created_at to the oldest, and total is N; no row is on two
\* pages, and every row of an earlier page is at least as new as every row
\* of a later one: of 25 rows, page 2 lists 5, and no other row is older
\* than one of them.
C13_PageHoldsItsShare ==
    (resp.op = "results" /\ resp.page >= 1) =>
        LET N == Cardinality(DOMAIN scans)
            p == resp.page
            rows == resp.scans
        IN  /\ Len(rows) = Min(20, Max(0, N - 20 * (p - 1)))
            /\ resp.total = N
            /\ \A i \in DOMAIN rows :
                  /\ rows[i].scan_id \in DOMAIN scans
                  /\ rows[i] = scans[rows[i].scan_id]
            /\ \A i, j \in DOMAIN rows :
                  i < j => /\ rows[i].scan_id # rows[j].scan_id
                           /\ rows[i].created_at[1] >= rows[j].created_at[1]
            /\ \A q \in 1..MaxPage :
                  q # p => IdsOf(ResultsPage(scans, q)) \cap IdsOf(rows) = {}
            /\ \A q \in 1..MaxPage, i \in DOMAIN rows :
                  q < p => \A a \in IdsOf(ResultsPage(scans, q)) :
                              scans[a].created_at[1] >= rows[i].created_at[1]
            /\ (N = 25 /\ p = 2) =>
                  /\ Len(rows) = 5
                  /\ \A a \in DOMAIN scans \ IdsOf(rows), i \in DOMAIN rows :
                        scans[a].created_at[1] >= rows[i].created_at[1]

\* page 2 of a table of 25 rows has been listed; its 5 rows include one
\* of a second whose other row is on page 1
C13_Witness ==
    /\ resp.op = "results" /\ resp.page = 2
    /\ Cardinality(DOMAIN scans) = 25
    /\ Len(resp.scans) = 5
    /\ \E a \in DOMAIN scans \ IdsOf(resp.scans) :
          scans[a].created_at = resp.scans[1].created_at

\* C14: every row with a terminal status (completed, failed, timeout,
\* error) has its end_time set, and a queued or running row has none.
C14_TerminalRowHasEndTime ==
    \A scan_id \in DOMAIN scans :
        /\ scans[scan_id].status \in TerminalStatuses
              => scans[scan_id].end_time # Null
        /\ scans[scan_id].status \in {"queued", "running"}
              => scans[scan_id].end_time = Null

\* C15: a scanner that cannot be started leaves the row with status error;
\* the thread starts the scanner at most once, and once the row has a
\* terminal status the scanner is not started again.
C15_LaunchFailureEndsInError ==
    /\ [](\A scan_id \in DOMAIN task :
            /\ task[scan_id].runs <= 1
            /\ (task[scan_id].pc = "done" /\ task[scan_id].exc = "OSError")
                  => /\ scans[scan_id].status = "error"
                     /\ task[scan_id].runs = 1)
    /\ [][\A scan_id \in DOMAIN task :
            scans[scan_id].status \in TerminalStatuses
                => task'[scan_id].runs = task[scan_id].runs]_vars

\* the thread has ended after the one start of the scanner failed, and the
\* row says error
C15_Witness ==
    \E scan_id \in DOMAIN task :
        /\ task[scan_id].pc = "done"
        /\ task[scan_id].exc = "OSError"
        /\ task[scan_id].runs = 1
        /\ written[scan_id] = <<"queued", "running", "error">>

\* the status the thread of scan_id leaves in its row when it returns, from
\* its own locals
OwnOutcome(scan_id) ==
    LET t == task[scan_id] IN
    IF t.exc = "none" THEN ResultStatus(t.returncode[1])
    ELSE IF t.exc = "TimeoutExpired" THEN TimeoutStatus
    ELSE ErrorStatus

\* C16: a step of the thread of scan a changes no row but the row of a:
\* the row of every other scan b, and the statuses committed to it, are
\* after the step what they were before it. So with several threads
\* interleaved, the row of a thread that has returned holds the status
\* that follows from that thread's own return code or exception and, if
\* it stored results, the summary of its own output file.
C16_ThreadWritesOwnRowOnly ==
    /\ [][\A a \in DOMAIN task :
            task'[a] # task[a] =>
                \A b \in DOMAIN scans \ {a} :
                    /\ b \in DOMAIN scans'
                    /\ scans'[b] = scans[b]
                    /\ written'[b] = written[b]]_vars
    /\ [](\A a \in DOMAIN task :
            task[a].pc = "done" =>
                /\ scans[a].status = OwnOutcome(a)
                /\ task[a].exc = "none" =>
                      LET sm == ParseResults(task[a].output_format,
                                             task[a].payload)
                      IN  /\ scans[a].compliance_score
                                = ToSql(sm.compliance_score)
                          /\ scans[a].risk_level = ToSql(sm.risk_level)
                          /\ scans[a].total_checks = ToSql(sm.total_checks)
                          /\ scans[a].passed_checks = ToSql(sm.passed_checks)
                          /\ scans[a].failed_checks = ToSql(sm.failed_checks)
                          /\ scans[a].warning_checks
                                = ToSql(sm.warning_checks)
                          /\ scans[a].skipped_checks
                                = ToSql(sm.skipped_checks))

\* two scans have both reached a terminal status, each by the writes of
\* its own thread, with different outcomes
C16_Witness ==
    \E a, b \in DOMAIN task :
        /\ a # b
        /\ task[a].pc = "done" /\ task[b].pc = "done"
        /\ written[a] = <<"queued", "running", "completed">>
        /\ written[b] = <<"queued", "running", "timeout">>

\* C17: the total_scans of the summary API is the number of rows of the
\* table, whatever their status.
C17_SummaryTotalCountsEveryRow ==
    [][(resp' # resp /\ resp'.op = "api_scans_summary")
          => resp'.total_scans = Cardinality(DOMAIN scans)]_vars

\* C18: a queued row has no start_time: the INSERT leaves start_time NULL
\* and the UPDATE to running is what sets it.
C18_QueuedRowHasNoStartTime ==
    \A scan_id \in DOMAIN scans :
        scans[scan_id].status = "queued" => scans[scan_id].start_time = Null

\* C19: every scan_id in active_scans has a row in the table, and so has
\* every scan_id with a thread: a request starts its thread only after its
\* INSERT has taken effect and files the scan_id only after the thread is
\* started, and a request whose INSERT failed starts no thread and files
\* nothing.
C19_ActiveScanHasRow ==
    /\ [](/\ active_scans \subseteq DOMAIN scans
          /\ DOMAIN task \subseteq DOMAIN scans
          /\ \A r \in Requests :
                /\ req[r].pc \in {"register", "redirect", "returned"}
                      => req[r].scan_id \in DOMAIN task
                /\ req[r].pc \in {"redirect", "returned"}
                      => req[r].scan_id \in active_scans)
    /\ [][/\ (active_scans' # active_scans \/ task' # task) =>
                \E r \in Requests :
                    /\ Accepted(r)
                    /\ req[r].scan_id \in DOMAIN scans
                    /\ active_scans' \subseteq
                            active_scans \cup {req[r].scan_id}
                    /\ DOMAIN task' \subseteq DOMAIN task \cup {req[r].scan_id}
          /\ \A r \in Requests :
                (req[r].pc # "failed" /\ req'[r].pc = "failed")
                    => /\ active_scans' = active_scans
                       /\ task' = task]_vars

\* one request has filed its scan_id, which has a row, while the INSERT of
\* another has failed on the store and left neither a row nor an entry
C19_Witness ==
    \E r1, r2 \in Requests :
        /\ req[r1].pc = "redirect"
        /\ req[r1].scan_id \in active_scans \cap DOMAIN scans
        /\ req[r2].pc = "failed" /\ req[r2].error = "OperationalError"
        /\ req[r2].scan_id \notin DOMAIN scans
        /\ req[r2].scan_id \notin active_scans

\* C20: a GET handler (scan_status, api_scan_status, results,
\* api_scans_summary, dashboard) that answers leaves the table, the
\* threads and active_scans as they were; asked about a scan_id that has
\* no row, scan_status redirects with 'Scan not found' and api_scan_status
\* answers 404, and afterwards the scan_id still has no row and no entry
\* in active_scans; asked about a scan_id that has a row, they answer from
\* that row.
C20_ReadsChangeNothing ==
    [][resp' # resp =>
         /\ scans' = scans /\ written' = written
         /\ active_scans' = active_scans /\ task' = task
         /\ resp'.op \in {"scan_status", "api_scan_status"} =>
              IF resp'.scan_id \in DOMAIN scans
              THEN /\ resp'.code = 200
                   /\ resp'.op = "scan_status" =>
                         /\ resp'.scan = scans[resp'.scan_id]
                         /\ resp'.is_active = (resp'.scan_id \in active_scans)
                   /\ resp'.op = "api_scan_status" =>
                         resp'.json.status = scans[resp'.scan_id].status
              ELSE /\ resp'.code = IF resp'.op = "scan_status" THEN 302 ELSE 404
                   /\ resp'.scan_id \notin DOMAIN scans'
                   /\ resp'.scan_id \notin active_scans']_vars

\* scan_status has answered 'Scan not found' for a scan_id while the table
\* holds the row of another scan, whose scan_id alone is in active_scans
C20_Witness ==
    /\ resp.op = "scan_status" /\ resp.code = 302
    /\ resp.scan_id \notin DOMAIN scans
    /\ DOMAIN scans # {}
    /\ active_scans = DOMAIN scans

====
